---------------------------- MODULE Spec2Model ----------------------------
(***************************************************************************)
(* Model of the wakewords repository:                                      *)
(*   - wakeword_testing/custom_porcupine.py : AudioLevelDetector, create() *)
(*   - wakeword_testing/normalize_mic_volume.py : the gain control loop    *)
(*                                                                         *)
(* Time is counted in tenths of a second (time.time() is in seconds, so    *)
(* the 2.0 s cooldown is 20 ticks).  Samples are signed 16-bit integers.   *)
(* An RMS value sqrt(mean(x^2)) is never materialised: every comparison    *)
(* "rms < t", "rms > t", "rms = t" of the code is evaluated on the squares *)
(* (sum(x^2) against t^2 * n), which is exact for the sample values used.  *)
(***************************************************************************)
EXTENDS Integers, Sequences, FiniteSets, TLC

VARIABLES
    \* ---- custom_porcupine.py ----
    detKind,              \* what create()/the constructor produced
    num_keywords,         \* AudioLevelDetector.num_keywords
    last_detection_time,  \* AudioLevelDetector.last_detection_time
    keyword_index,        \* AudioLevelDetector.keyword_index
    threshold,            \* AudioLevelDetector.threshold
    cooldown_period,      \* AudioLevelDetector.cooldown_period
    clock,                \* what time.time() returns now (non-decreasing)
    pcm,                  \* frame passed to the latest process call
    current_time,         \* current_time read by the latest process call
    result,               \* value returned by the latest call that returned
    outcome,              \* "none" | "returned" | "ZeroDivisionError"
    triggers,             \* number of calls so far that returned a value >= 0
    last_trigger_time,    \* clock reading of the latest such call
    prev_trigger_time,    \* clock reading of the one before it
    other,                \* a second AudioLevelDetector: <<>> or <<fields>>
    other_result,         \* value returned by its latest call that returned
    other_outcome,        \* "none" | "returned" | "ZeroDivisionError"
    \* ---- normalize_mic_volume.py ----
    agc_pc,               \* position of main()'s loop
    mixer_volume,         \* the capture volume held by the mixer (amixer)
    agc_pcm,              \* frame read in this cycle
    current_vol,          \* <<>> for None, <<v>> for the value read
    writes,               \* volumes passed to "amixer sset" in this cycle
    write_failed,         \* an "amixer sset" of this cycle raised
    read_failed,          \* "Could not read current mic volume." was printed
    prev_failure,         \* what failed in the previous cycle:
                          \* "none" | "read" | "write"
    volume_drifted,       \* the volume read in this cycle is none that the
                          \* loop's own write to the previous one gives
    rms_arg,              \* argument of the latest calculate_rms call
    rms                   \* what that call returned

detVars == <<detKind, num_keywords, last_detection_time, keyword_index,
             threshold, cooldown_period, clock, pcm, current_time, result,
             outcome, triggers, last_trigger_time, prev_trigger_time,
             other, other_result, other_outcome>>

otherVars == <<other, other_result, other_outcome>>

rmsVars == <<rms_arg, rms>>

agcVars == <<agc_pc, mixer_volume, agc_pcm, current_vol, writes,
             write_failed, read_failed, prev_failure, volume_drifted,
             rms_arg, rms>>

vars == <<detVars, agcVars>>

----------------------------------------------------------------------------
\* Bounds of the model

MaxLen == 2          \* longest frame handed to process
MaxKeywords == 2     \* largest num_keywords / len(keyword_paths)
MaxTime == 60        \* the clock stops advancing here (6.0 s)
FrameLen == 2        \* FRAME_LENGTH of the gain loop, scaled down from 512

\* Sample values: silence, exactly the detector threshold, loud (negative)
Samples == {-15000, 0, 10000}

\* Sample values of the gain loop: below, at and inside the band, above
AgcSamples == {5000, 8000, 9000, 12000, -20000}

\* Clock advances between two calls: 0.5 s, 1.6 s, 2.0 s
Deltas == {5, 16, 20}

\* Clock readings at which the model starts: the epoch, and one cooldown later
StartTimes == {0, 20}

\* Capture volumes the mixer may hold at start or be set to out of band
MixerVolumes == {0, 3, 40, 50, 98, 100}

Frames == UNION {[1..k -> Samples] : k \in 0..MaxLen}

AgcFrames == [1..FrameLen -> AgcSamples]

\* Frames handed to two interleaved detectors: empty, at threshold, loud
TwoFrames == {<<>>, <<10000>>, <<-15000>>}

\* Frames handed to calculate_rms on its own, the empty one included
LoudnessFrames ==
    UNION {[1..k -> Samples \cup AgcSamples] : k \in 0..(MaxLen + 1)}

----------------------------------------------------------------------------
\* Loudness

RECURSIVE SumSq(_)
SumSq(s) == IF s = <<>> THEN 0 ELSE Head(s) * Head(s) + SumSq(Tail(s))

\* np.sqrt(np.mean(pcm_array**2)) > t
RmsGreater(s, t) == SumSq(s) > t * t * Len(s)

\* np.sqrt(np.mean(pcm_array**2)) < t
RmsLess(s, t) == SumSq(s) < t * t * Len(s)

\* calculate_rms(pcm) = np.sqrt(np.mean(pcm_array ** 2)), kept as the fraction
\* under the root: sum of squares over the number of samples.  The mean of
\* an empty array is 0/0, which numpy evaluates to NaN (with a warning).
calculate_rms(s) == [num |-> SumSq(s), den |-> Len(s)]

\* Python's a % b for b # 0: the result has the sign of b
PyMod(a, b) == IF b > 0 THEN a % b ELSE 0 - ((0 - a) % (0 - b))

----------------------------------------------------------------------------
\* custom_porcupine.py

\* AudioLevelDetector.__init__(num_keywords): no argument is rejected
AudioLevelDetector_init(n) ==
    /\ detKind' = "AudioLevelDetector"
    /\ last_detection_time' = 0
    /\ cooldown_period' = 20
    /\ threshold' = 10000
    /\ num_keywords' = n
    /\ keyword_index' = 0

\* A direct construction AudioLevelDetector(num_keywords=n)
Construct(n) ==
    /\ detKind = "none"
    /\ AudioLevelDetector_init(n)
    /\ UNCHANGED <<clock, pcm, current_time, result, outcome, triggers,
                   last_trigger_time, prev_trigger_time>>
    /\ UNCHANGED otherVars
    /\ UNCHANGED agcVars

\* keyword_paths arguments of create(): None, or a list of 0..MaxKeywords paths
KeywordPathsArgs ==
    {[isNone |-> TRUE, paths |-> <<>>]} \cup
    {[isNone |-> FALSE, paths |-> [i \in 1..k |-> "ppn"]] : k \in 0..MaxKeywords}

\* len(keyword_paths) if keyword_paths else 1
FallbackNumKeywords(kp) ==
    IF ~kp.isNone /\ Len(kp.paths) > 0 THEN Len(kp.paths) ELSE 1

\* Outcomes of "import pvporcupine"
ImportOutcomes == {"ok", "ImportError", "OtherError"}

\* What create() hands back when pvporcupine is imported: with an access
\* key (key) pvporcupine.create is tried with it, without one it is tried
\* after patching the library path; real is whether that call succeeds.
\* Every exception of either attempt is logged and leads to the fallback.
RealRecognizerCreated(key, real) == IF key THEN real ELSE real

\* create(keyword_paths): imp is the outcome of "import pvporcupine"
create(kp, imp, key, real) ==
    /\ detKind = "none"
    /\ IF imp = "OtherError"
         THEN \* only ImportError is caught around the import
              /\ detKind' = "raised"
              /\ UNCHANGED <<num_keywords, last_detection_time, keyword_index,
                             threshold, cooldown_period>>
         ELSE IF imp = "ok" /\ RealRecognizerCreated(key, real)
                THEN /\ detKind' = "Porcupine"
                     /\ UNCHANGED <<num_keywords, last_detection_time,
                                    keyword_index, threshold, cooldown_period>>
                ELSE AudioLevelDetector_init(FallbackNumKeywords(kp))
    /\ UNCHANGED <<clock, pcm, current_time, result, outcome, triggers,
                   last_trigger_time, prev_trigger_time>>
    /\ UNCHANGED otherVars
    /\ UNCHANGED agcVars

\* The clock moves on between two calls
Tick(d) ==
    /\ clock + d <= MaxTime
    /\ clock' = clock + d
    /\ UNCHANGED <<detKind, num_keywords, last_detection_time, keyword_index,
                   threshold, cooldown_period, pcm, current_time, result,
                   outcome, triggers, last_trigger_time, prev_trigger_time>>
    /\ UNCHANGED otherVars
    /\ UNCHANGED agcVars

\* Faulty variant: the cooldown comparison inverted
InCooldown_Inverted(now) == now - last_detection_time > cooldown_period

\* "if current_time - self.last_detection_time < self.cooldown_period"
InCooldown(now) == now - last_detection_time < cooldown_period

\* Faulty variant: ">=" instead of ">"
Loud_OrEqual(f) == Len(f) > 0 /\ ~RmsLess(f, threshold)

\* Faulty variant: no length guard, and a loudness of 0 for the empty frame
\* compared with ">="
Loud_Unguarded(f) == SumSq(f) >= threshold * threshold * Len(f)

\* "if rms > self.threshold", under "if len(pcm) > 0"
Loud(f) == Len(f) > 0 /\ RmsGreater(f, threshold)

\* Faulty variant: the slot never advances
NextKeywordIndex_Stuck == keyword_index

\* "(self.keyword_index + 1) % self.num_keywords"
NextKeywordIndex == PyMod(keyword_index + 1, num_keywords)

\* return v
Return(v) ==
    /\ result' = v
    /\ outcome' = "returned"
    /\ IF v >= 0
         THEN /\ triggers' = triggers + 1
              /\ prev_trigger_time' = last_trigger_time
              /\ last_trigger_time' = clock
         ELSE UNCHANGED <<triggers, last_trigger_time, prev_trigger_time>>

\* AudioLevelDetector.process(pcm)
process(f) ==
    /\ detKind = "AudioLevelDetector"
    /\ pcm' = f
    /\ current_time' = clock
    /\ IF InCooldown(clock)
         THEN /\ Return(-1)
              /\ UNCHANGED <<last_detection_time, keyword_index>>
         ELSE IF Loud(f)
                THEN /\ last_detection_time' = clock
                     /\ IF num_keywords = 0
                          THEN \* the modulo raises after the time is stored
                               /\ outcome' = "ZeroDivisionError"
                               /\ UNCHANGED <<result, keyword_index, triggers,
                                              last_trigger_time,
                                              prev_trigger_time>>
                          ELSE /\ Return(keyword_index)
                               /\ keyword_index' = NextKeywordIndex
                ELSE /\ Return(-1)
                     /\ UNCHANGED <<last_detection_time, keyword_index>>
    /\ UNCHANGED <<detKind, num_keywords, threshold, cooldown_period, clock>>
    /\ UNCHANGED otherVars
    /\ UNCHANGED agcVars

\* The fields __init__ gives a second AudioLevelDetector(num_keywords=n)
NewDetector(n) ==
    [num_keywords |-> n, last_detection_time |-> 0, keyword_index |-> 0,
     threshold |-> 10000, cooldown_period |-> 20]

\* The fields of the first instance
Self ==
    [num_keywords |-> num_keywords, last_detection_time |-> last_detection_time,
     keyword_index |-> keyword_index, threshold |-> threshold,
     cooldown_period |-> cooldown_period]

\* AudioLevelDetector.process(pcm) as a function of the instance d it is
\* called on, the clock reading and the frame: the fields afterwards, how
\* the call ended and what it returned
ProcessOn(d, now, f) ==
    IF now - d.last_detection_time < d.cooldown_period
      THEN [self |-> d, outcome |-> "returned", result |-> -1]
      ELSE IF Len(f) > 0 /\ RmsGreater(f, d.threshold)
             THEN IF d.num_keywords = 0
                    THEN [self |-> [d EXCEPT !.last_detection_time = now],
                          outcome |-> "ZeroDivisionError", result |-> -1]
                    ELSE [self |-> [d EXCEPT
                                      !.last_detection_time = now,
                                      !.keyword_index =
                                          PyMod(@ + 1, d.num_keywords)],
                          outcome |-> "returned",
                          result |-> d.keyword_index]
             ELSE [self |-> d, outcome |-> "returned", result |-> -1]

\* A second instance is constructed
ConstructOther(n) ==
    /\ other = <<>>
    /\ other' = <<NewDetector(n)>>
    /\ UNCHANGED <<other_result, other_outcome>>
    /\ UNCHANGED <<detKind, num_keywords, last_detection_time, keyword_index,
                   threshold, cooldown_period, clock, pcm, current_time,
                   result, outcome, triggers, last_trigger_time,
                   prev_trigger_time>>
    /\ UNCHANGED agcVars

\* Faulty variant: the fields live on the class, shared by all instances
process_other_Shared(f) ==
    /\ other # <<>>
    /\ detKind = "AudioLevelDetector"
    /\ LET r == ProcessOn(Self, clock, f) IN
         /\ last_detection_time' = r.self.last_detection_time
         /\ keyword_index' = r.self.keyword_index
         /\ other_outcome' = r.outcome
         /\ other_result' = IF r.outcome = "returned" THEN r.result
                            ELSE other_result
    /\ UNCHANGED <<other, detKind, num_keywords, threshold, cooldown_period,
                   clock, pcm, current_time, result, outcome, triggers,
                   last_trigger_time, prev_trigger_time>>
    /\ UNCHANGED agcVars

\* process(pcm) called on the second instance
process_other(f) ==
    /\ other # <<>>
    /\ LET r == ProcessOn(other[1], clock, f) IN
         /\ other' = <<r.self>>
         /\ other_outcome' = r.outcome
         /\ other_result' = IF r.outcome = "returned" THEN r.result
                            ELSE other_result
    /\ UNCHANGED <<detKind, num_keywords, last_detection_time, keyword_index,
                   threshold, cooldown_period, clock, pcm, current_time,
                   result, outcome, triggers, last_trigger_time,
                   prev_trigger_time>>
    /\ UNCHANGED agcVars

----------------------------------------------------------------------------
\* normalize_mic_volume.py

TARGET_RMS_LOW == 8000
TARGET_RMS_HIGH == 12000
ADJUST_STEP == 5
MIN_VOLUME == 0
MAX_VOLUME == 100

Min(a, b) == IF a < b THEN a ELSE b

Max(a, b) == IF a > b THEN a ELSE b

\* Faulty variant: the upper clamp forgotten
Clamp_NoUpper(volume) == Max(MIN_VOLUME, volume)

\* Faulty variant: the lower clamp forgotten
Clamp_NoLower(volume) == Min(volume, MAX_VOLUME)

\* "volume = max(MIN_VOLUME, min(volume, MAX_VOLUME))"
Clamp(volume) == Max(MIN_VOLUME, Min(volume, MAX_VOLUME))

\* Faulty variant: the comparison with TARGET_RMS_LOW inverted
TooQuiet_Inverted(f) == RmsGreater(f, TARGET_RMS_LOW)

\* "if rms < TARGET_RMS_LOW"
TooQuiet(f) == RmsLess(f, TARGET_RMS_LOW)

\* Faulty variant: ">=" instead of ">"
TooLoud_OrEqual(f) == ~RmsLess(f, TARGET_RMS_HIGH)

\* "elif rms > TARGET_RMS_HIGH"
TooLoud(f) == RmsGreater(f, TARGET_RMS_HIGH)

\* stream.read + struct.unpack + calculate_rms: the cycle starts with a frame
\* of exactly FRAME_LENGTH samples
ReadFrame(f) ==
    /\ agc_pc = "read_frame"
    /\ agc_pcm' = f
    /\ writes' = <<>>
    /\ write_failed' = FALSE
    /\ read_failed' = FALSE
    /\ prev_failure' = IF read_failed THEN "read"
                       ELSE IF write_failed THEN "write" ELSE "none"
    /\ agc_pc' = "get_volume"
    \* current_vol keeps the previous cycle's value until it is assigned
    /\ rms_arg' = f
    /\ rms' = calculate_rms(f)
    /\ UNCHANGED <<mixer_volume, current_vol, volume_drifted>>
    /\ UNCHANGED detVars

\* Faulty variant: a failed read answered with a guessed volume
get_current_mic_volume_Guess(ok) ==
    IF ok THEN <<mixer_volume>> ELSE <<MIN_VOLUME>>

\* get_current_mic_volume(): the percentage amixer prints, or None when
\* amixer fails or prints no percentage
get_current_mic_volume(ok) == IF ok THEN <<mixer_volume>> ELSE <<>>

\* Faulty variant: a volume read in an earlier cycle is kept
GetVolume_Cached(ok) ==
    /\ agc_pc = "get_volume"
    /\ current_vol' = IF current_vol # <<>> THEN current_vol
                      ELSE get_current_mic_volume(ok)
    /\ IF current_vol' = <<>>
         THEN /\ read_failed' = TRUE
              /\ agc_pc' = "sleep"
         ELSE /\ read_failed' = FALSE
              /\ agc_pc' = "adjust"
    /\ volume_drifted' = FALSE
    /\ UNCHANGED <<mixer_volume, agc_pcm, writes, write_failed, prev_failure>>
    /\ UNCHANGED rmsVars
    /\ UNCHANGED detVars

\* "current_vol = get_current_mic_volume()" and the None branch of main
GetVolume(ok) ==
    /\ agc_pc = "get_volume"
    /\ current_vol' = get_current_mic_volume(ok)
    /\ IF current_vol' = <<>>
         THEN /\ read_failed' = TRUE
              /\ agc_pc' = "sleep"
         ELSE /\ read_failed' = FALSE
              /\ agc_pc' = "adjust"
    /\ volume_drifted' =
         (/\ current_vol # <<>>
          /\ current_vol' # <<>>
          /\ current_vol'[1] \notin {current_vol[1],
                                     Clamp(current_vol[1] + ADJUST_STEP),
                                     Clamp(current_vol[1] - ADJUST_STEP)})
    /\ UNCHANGED <<mixer_volume, agc_pcm, writes, write_failed, prev_failure>>
    /\ UNCHANGED rmsVars
    /\ UNCHANGED detVars

\* Faulty variant: a failed "amixer sset" is tried a second time
set_mic_volume_Retry(volume, ok) ==
    /\ writes' = IF ok THEN Append(writes, Clamp(volume))
                 ELSE Append(Append(writes, Clamp(volume)), Clamp(volume))
    /\ IF ok
         THEN /\ mixer_volume' = Clamp(volume)
              /\ UNCHANGED write_failed
         ELSE /\ write_failed' = TRUE
              /\ UNCHANGED mixer_volume

\* set_mic_volume(volume): one "amixer sset" of the clamped value; ok is
\* whether amixer succeeds, a failure is printed and swallowed
set_mic_volume(volume, ok) ==
    /\ writes' = Append(writes, Clamp(volume))
    /\ IF ok
         THEN /\ mixer_volume' = Clamp(volume)
              /\ UNCHANGED write_failed
         ELSE /\ write_failed' = TRUE
              /\ UNCHANGED mixer_volume

\* "Adjust volume if RMS is outside the target range"
Adjust(ok) ==
    /\ agc_pc = "adjust"
    /\ IF TooQuiet(agc_pcm)
         THEN set_mic_volume(current_vol[1] + ADJUST_STEP, ok)
         ELSE IF TooLoud(agc_pcm)
                THEN set_mic_volume(current_vol[1] - ADJUST_STEP, ok)
                ELSE UNCHANGED <<writes, write_failed, mixer_volume>>
    /\ agc_pc' = "sleep"
    /\ UNCHANGED <<agc_pcm, current_vol, read_failed, prev_failure,
                   volume_drifted>>
    /\ UNCHANGED rmsVars
    /\ UNCHANGED detVars

\* time.sleep(1), then the next iteration of "while True"
Sleep ==
    /\ agc_pc = "sleep"
    /\ agc_pc' = "read_frame"
    /\ UNCHANGED <<mixer_volume, agc_pcm, current_vol, writes, write_failed,
                   read_failed, prev_failure, volume_drifted>>
    /\ UNCHANGED rmsVars
    /\ UNCHANGED detVars

\* The frames f and g are both below the band, or both above it
SameSide(f, g) ==
    \/ RmsLess(f, TARGET_RMS_LOW) /\ RmsLess(g, TARGET_RMS_LOW)
    \/ RmsGreater(f, TARGET_RMS_HIGH) /\ RmsGreater(g, TARGET_RMS_HIGH)

\* The next frame of a signal that stays on its side of the band
SteadyReadFrame(f) == SameSide(agc_pcm, f) /\ ReadFrame(f)

\* A call calculate_rms(f) on its own
CallCalculateRms(f) ==
    /\ rms_arg' = f
    /\ rms' = calculate_rms(f)
    /\ UNCHANGED <<agc_pc, mixer_volume, agc_pcm, current_vol, writes,
                   write_failed, read_failed, prev_failure, volume_drifted>>
    /\ UNCHANGED detVars

\* Another process or the user sets the capture volume
ExternalChange(v) ==
    /\ mixer_volume # v
    /\ mixer_volume' = v
    /\ UNCHANGED <<agc_pc, agc_pcm, current_vol, writes, write_failed,
                   read_failed, prev_failure, volume_drifted>>
    /\ UNCHANGED rmsVars
    /\ UNCHANGED detVars

----------------------------------------------------------------------------
DetInit ==
    /\ detKind = "none"
    /\ num_keywords = 0
    /\ last_detection_time = 0
    /\ keyword_index = 0
    /\ threshold = 0
    /\ cooldown_period = 0
    /\ clock \in StartTimes
    /\ pcm = <<>>
    /\ current_time = 0
    /\ result = -1
    /\ outcome = "none"
    /\ triggers = 0
    /\ last_trigger_time = 0
    /\ prev_trigger_time = 0
    /\ other = <<>>
    /\ other_result = -1
    /\ other_outcome = "none"

AgcInit ==
    /\ agc_pc = "read_frame"
    /\ mixer_volume \in MixerVolumes
    /\ agc_pcm = <<>>
    /\ current_vol = <<>>
    /\ writes = <<>>
    /\ write_failed = FALSE
    /\ read_failed = FALSE
    /\ prev_failure = "none"
    /\ volume_drifted = FALSE
    /\ rms_arg = <<>>
    /\ rms = [num |-> 0, den |-> 1]

DetNext ==
    \/ \E n \in {-2, 0} \cup (1..MaxKeywords) : Construct(n)
    \/ \E kp \in KeywordPathsArgs, imp \in ImportOutcomes, key \in BOOLEAN,
          real \in BOOLEAN : create(kp, imp, key, real)
    \/ \E d \in Deltas : Tick(d)
    \/ \E f \in Frames : process(f)

AgcNext ==
    \/ \E f \in AgcFrames : ReadFrame(f)
    \/ \E ok \in BOOLEAN : GetVolume(ok)
    \/ \E ok \in BOOLEAN : Adjust(ok)
    \/ Sleep
    \/ \E v \in MixerVolumes : ExternalChange(v)

\* The detector on its own (the gain loop is not started)
InitDetector == DetInit /\ AgcInit /\ mixer_volume = MAX_VOLUME

SpecDetector == InitDetector /\ [][DetNext]_vars

\* The gain loop on its own (no detector is constructed)
InitAgc == DetInit /\ clock = 0 /\ AgcInit

SpecAgc == InitAgc /\ [][AgcNext]_vars

\* Two detector instances with their calls interleaved in any order
NextTwo ==
    \/ \E n \in 0..MaxKeywords : Construct(n)
    \/ \E n \in 0..MaxKeywords : ConstructOther(n)
    \/ \E d \in Deltas : Tick(d)
    \/ \E f \in TwoFrames : process(f)
    \/ \E f \in TwoFrames : process_other(f)

InitTwo == DetInit /\ AgcInit /\ mixer_volume = MAX_VOLUME

SpecTwo == InitTwo /\ [][NextTwo]_vars

\* The gain loop from a cycle on after which the signal stays below the band
\* or stays above it, amixer always succeeds and nobody else sets the volume
InitSteady ==
    /\ DetInit /\ clock = 0
    /\ agc_pc = "read_frame"
    /\ mixer_volume \in MixerVolumes
    /\ agc_pcm \in {f \in AgcFrames : SameSide(f, f)}
    /\ current_vol = <<>>
    /\ writes = <<>>
    /\ write_failed = FALSE
    /\ read_failed = FALSE
    /\ prev_failure = "none"
    /\ volume_drifted = FALSE
    /\ rms_arg = agc_pcm
    /\ rms = calculate_rms(agc_pcm)

NextSteady ==
    \/ \E f \in AgcFrames : SteadyReadFrame(f)
    \/ GetVolume(TRUE)
    \/ Adjust(TRUE)
    \/ Sleep

\* "while True" with time.sleep(1): the loop always takes its next step
SpecAgcSteady == InitSteady /\ [][NextSteady]_vars /\ WF_vars(NextSteady)

\* calculate_rms on its own, applied to frames of every length
NextLoudness == \E f \in LoudnessFrames : CallCalculateRms(f)

InitLoudness == DetInit /\ clock = 0 /\ AgcInit /\ mixer_volume = MAX_VOLUME

SpecLoudness == InitLoudness /\ [][NextLoudness]_vars

----------------------------------------------------------------------------
\* Vocabulary of the properties below

\* The latest process call returned a slot index
Triggered == outcome = "returned" /\ result >= 0

\* The loudness of frame f is below / equal to / above the level t
LoudnessBelow(f, t) == Len(f) > 0 /\ SumSq(f) < t * t * Len(f)

LoudnessEquals(f, t) == Len(f) > 0 /\ SumSq(f) = t * t * Len(f)

LoudnessAbove(f, t) == Len(f) > 0 /\ SumSq(f) > t * t * Len(f)

Abs(a) == IF a < 0 THEN 0 - a ELSE a

\* The value r returned by calculate_rms is the number v (never so for NaN)
RmsValueIs(r, v) == r.den # 0 /\ v >= 0 /\ r.num = v * v * r.den

\* A cycle of the gain loop is complete and its volume read succeeded
CycleDone == agc_pc = "sleep" /\ current_vol # <<>>

\* The writes a cycle with frame f and volume read cur is to issue
DecidedWrites(f, cur) ==
    IF LoudnessBelow(f, TARGET_RMS_LOW)
      THEN <<Max(MIN_VOLUME, Min(cur + ADJUST_STEP, MAX_VOLUME))>>
      ELSE IF LoudnessAbove(f, TARGET_RMS_HIGH)
             THEN <<Max(MIN_VOLUME, Min(cur - ADJUST_STEP, MAX_VOLUME))>>
             ELSE <<>>

\* The loop moves on: each position is left only for the one after it
LoopAdvances ==
    \/ agc_pc' = agc_pc
    \/ agc_pc = "read_frame" /\ agc_pc' = "get_volume"
    \/ agc_pc = "get_volume" /\ agc_pc' \in {"adjust", "sleep"}
    \/ agc_pc = "adjust" /\ agc_pc' = "sleep"
    \/ agc_pc = "sleep" /\ agc_pc' = "read_frame"

----------------------------------------------------------------------------
\* C1: with a non-decreasing clock, a process call made while
\* now - last_detection_time < cooldown_period never returns a slot index,
\* however loud the frame; and any two calls that return a slot index are
\* at least cooldown_period apart.
C1_NoTriggerDuringCooldown ==
    /\ [][\A f \in Frames :
            (process(f) /\ clock - last_detection_time < cooldown_period)
                => ~Triggered']_vars
    /\ [](triggers >= 2 =>
            last_trigger_time - prev_trigger_time >= cooldown_period)

\* A loud frame processed during the cooldown after the second trigger
C1_Witness ==
    /\ triggers >= 2
    /\ outcome = "returned" /\ result = -1
    /\ LoudnessAbove(pcm, threshold)
    /\ current_time - last_detection_time < cooldown_period
    /\ current_time > last_detection_time

\* C2: a frame louder than threshold, processed when the cooldown has
\* elapsed, returns a slot index in [0, slot_count) and stores
\* last_detection_time = now; a loud frame processed less than
\* cooldown_period after it returns -1.
C2_LoudFrameTriggers ==
    [][\A f \in Frames :
         /\ (process(f) /\ LoudnessAbove(f, threshold)
                /\ clock - last_detection_time >= cooldown_period)
              => /\ outcome' = "returned"
                 /\ result' \in 0..(num_keywords - 1)
                 /\ last_detection_time' = clock
         /\ (process(f) /\ LoudnessAbove(f, threshold) /\ triggers >= 1
                /\ clock - last_trigger_time < cooldown_period)
              => (outcome' = "returned" /\ result' = -1)]_vars

\* C3: a frame whose loudness is at most threshold (an empty frame
\* included) returns -1 in every detector state; a frame exactly at
\* threshold does not trigger even when the cooldown has elapsed.
C3_QuietFrameNoTrigger ==
    (outcome # "none" /\ SumSq(pcm) <= threshold * threshold * Len(pcm))
        => (outcome = "returned" /\ result = -1)

\* A frame exactly at threshold, processed after the cooldown has elapsed
C3_Witness ==
    /\ outcome = "returned" /\ result = -1
    /\ LoudnessEquals(pcm, threshold)
    /\ current_time - last_detection_time >= cooldown_period

\* C4: the k-th call that returns a slot index (k counted from 0) returns
\* k mod slot_count, a value of 0..slot_count-1.
C4_RoundRobin ==
    Triggered =>
        /\ num_keywords >= 1
        /\ result = (triggers - 1) % num_keywords

\* C5: in every state of a detector, 0 <= keyword_index < num_keywords.
C5_NextSlotInRange ==
    detKind = "AudioLevelDetector" =>
        (0 <= keyword_index /\ keyword_index < num_keywords)

\* C6: no detector with slot_count < 1 is ever constructed (the
\* construction is rejected), and process never fails.
C6_SlotCountValidated ==
    /\ detKind = "AudioLevelDetector" => num_keywords >= 1
    /\ outcome # "ZeroDivisionError"

\* C7: every volume passed to the mixer lies in [MIN_VOLUME, MAX_VOLUME];
\* so does the value computed for a current_volume read at or beyond a
\* bound.
C7_WrittenVolumeInRange ==
    /\ \A i \in 1..Len(writes) :
         MIN_VOLUME <= writes[i] /\ writes[i] <= MAX_VOLUME
    /\ \A cur \in (MIN_VOLUME - ADJUST_STEP)..(MAX_VOLUME + ADJUST_STEP) :
         /\ Clamp(cur + ADJUST_STEP) \in MIN_VOLUME..MAX_VOLUME
         /\ Clamp(cur - ADJUST_STEP) \in MIN_VOLUME..MAX_VOLUME

\* A write that the clamp cut back to MAX_VOLUME
C7_Witness ==
    /\ CycleDone
    /\ current_vol[1] + ADJUST_STEP > MAX_VOLUME
    /\ writes = <<MAX_VOLUME>>

\* C8 as claimed: a volume write is issued only when the new volume differs
\* from the current_volume read in the same cycle.
C8_WriteOnlyWhenChanged ==
    \A i \in 1..Len(writes) :
        current_vol # <<>> /\ writes[i] # current_vol[1]

\* C8 as amended: a write is issued in exactly the cycles whose read
\* succeeded and whose loudness is outside the band; the written value
\* equals current_volume exactly when current_volume is already MAX_VOLUME
\* with loudness < TARGET_RMS_LOW, or already MIN_VOLUME with loudness >
\* TARGET_RMS_HIGH (the bound is then written again).
C8_WriteWheneverOutsideBand ==
    /\ CycleDone =>
         (writes # <<>> <=> (\/ LoudnessBelow(agc_pcm, TARGET_RMS_LOW)
                             \/ LoudnessAbove(agc_pcm, TARGET_RMS_HIGH)))
    /\ \A i \in 1..Len(writes) :
         /\ current_vol # <<>>
         /\ writes[i] = current_vol[1] <=>
              \/ /\ current_vol[1] = MAX_VOLUME
                 /\ LoudnessBelow(agc_pcm, TARGET_RMS_LOW)
              \/ /\ current_vol[1] = MIN_VOLUME
                 /\ LoudnessAbove(agc_pcm, TARGET_RMS_HIGH)

\* A redundant write: the volume read was MAX_VOLUME, and it is written again
C8_Witness ==
    /\ CycleDone
    /\ current_vol = <<MAX_VOLUME>>
    /\ writes = <<MAX_VOLUME>>

\* C9: a cycle whose loudness lies in [TARGET_RMS_LOW, TARGET_RMS_HIGH],
\* bounds included, issues no write and leaves the mixer volume as it was.
C9_DeadZone ==
    [][(/\ agc_pc = "adjust" /\ agc_pc' = "sleep"
        /\ ~LoudnessBelow(agc_pcm, TARGET_RMS_LOW)
        /\ ~LoudnessAbove(agc_pcm, TARGET_RMS_HIGH))
          => (writes' = <<>> /\ mixer_volume' = mixer_volume)]_vars

\* A completed cycle whose loudness is exactly TARGET_RMS_HIGH
C9_Witness ==
    /\ CycleDone
    /\ LoudnessEquals(agc_pcm, TARGET_RMS_HIGH)
    /\ writes = <<>>
    /\ mixer_volume = current_vol[1]

\* C10: after a successful read, loudness < TARGET_RMS_LOW writes
\* min(current_volume + ADJUST_STEP, MAX_VOLUME) and loudness >
\* TARGET_RMS_HIGH writes max(current_volume - ADJUST_STEP, MIN_VOLUME);
\* (5000, 40) gives 45, (20000, 45) gives 40, (9000, 40) no change, and
\* (below the band, 98) gives 100.
C10_StepAndClamp ==
    CycleDone =>
        /\ LoudnessBelow(agc_pcm, TARGET_RMS_LOW) =>
             writes = <<IF current_vol[1] + ADJUST_STEP > MAX_VOLUME
                          THEN MAX_VOLUME
                          ELSE current_vol[1] + ADJUST_STEP>>
        /\ LoudnessAbove(agc_pcm, TARGET_RMS_HIGH) =>
             writes = <<IF current_vol[1] - ADJUST_STEP < MIN_VOLUME
                          THEN MIN_VOLUME
                          ELSE current_vol[1] - ADJUST_STEP>>
        /\ (LoudnessEquals(agc_pcm, 5000) /\ current_vol = <<40>>)
             => writes = <<45>>
        /\ (LoudnessEquals(agc_pcm, 20000) /\ current_vol = <<45>>)
             => writes = <<40>>
        /\ (LoudnessEquals(agc_pcm, 9000) /\ current_vol = <<40>>)
             => writes = <<>>
        /\ (LoudnessBelow(agc_pcm, TARGET_RMS_LOW) /\ current_vol = <<98>>)
             => writes = <<100>>

\* The second step of the scenario: loudness 20000 at volume 45 wrote 40
C10_Witness ==
    /\ CycleDone
    /\ LoudnessEquals(agc_pcm, 20000)
    /\ current_vol = <<45>>
    /\ writes = <<40>>
    /\ mixer_volume = 40

\* C11: a cycle whose volume read fails (None) issues no write, whatever
\* the loudness of its frame, reports the failure and goes to sleep; the
\* loop then starts the next cycle, which reads the volume again.
C11_ReadFailureSkipsCycle ==
    /\ [][GetVolume(FALSE) =>
            /\ read_failed' /\ current_vol' = <<>>
            /\ writes' = <<>> /\ mixer_volume' = mixer_volume
            /\ agc_pc' = "sleep"]_vars
    /\ [](read_failed => (writes = <<>> /\ current_vol = <<>>
                            /\ agc_pc \in {"sleep", "read_frame"}))
    /\ [][read_failed => LoopAdvances]_vars
    /\ [][(prev_failure = "read" /\ agc_pc = "get_volume"
             /\ agc_pc' = "adjust") => current_vol' = <<mixer_volume>>]_vars

\* A failed read in a cycle whose frame is too loud: nothing was written
C11_Witness ==
    /\ agc_pc = "sleep"
    /\ read_failed
    /\ LoudnessAbove(agc_pcm, TARGET_RMS_HIGH)
    /\ writes = <<>>

\* C12: a cycle issues at most one "amixer sset", failed or not; a failed
\* write ends the cycle like a successful one, and the cycle after a failed
\* read or write decides from its own frame and its own volume read.
C12_NoRetryLoopContinues ==
    /\ [](Len(writes) <= 1)
    /\ [](write_failed => (Len(writes) = 1
                             /\ agc_pc \in {"sleep", "read_frame"}))
    /\ [][LoopAdvances]_vars
    /\ []((prev_failure # "none" /\ CycleDone)
            => writes = DecidedWrites(agc_pcm, current_vol[1]))
    /\ [][(prev_failure # "none" /\ agc_pc = "get_volume"
             /\ agc_pc' = "adjust") => current_vol' = <<mixer_volume>>]_vars

\* The cycle after a failed write: it wrote again, from its own reading
C12_Witness ==
    /\ prev_failure = "write"
    /\ CycleDone
    /\ ~write_failed
    /\ writes = <<current_vol[1] - ADJUST_STEP>>
    /\ mixer_volume = writes[1]

C14_NoCachedVolume ==
    /\ [][(agc_pc = "get_volume" /\ agc_pc' = "adjust")
            => current_vol' = <<mixer_volume>>]_vars
    /\ [][(agc_pc = "adjust" /\ agc_pc' = "sleep")
            => writes' = DecidedWrites(agc_pcm, current_vol[1])]_vars
    /\ []((CycleDone /\ volume_drifted /\ writes # <<>>)
            => writes[1] \in {Clamp(current_vol[1] + ADJUST_STEP),
                              Clamp(current_vol[1] - ADJUST_STEP)})

\* A cycle that read a volume set out of band and wrote from that reading
C14_Witness ==
    /\ CycleDone
    /\ volume_drifted
    /\ writes # <<>>
    /\ ~write_failed
    /\ mixer_volume = writes[1]

\* C15: calculate_rms returns 0 for the empty frame, 0 for a frame of
\* zeros, and |A| for a frame that repeats the value A.
C15_LoudnessOfDegenerateFrames ==
    /\ rms_arg = <<>> => RmsValueIs(rms, 0)
    /\ \A A \in Samples \cup AgcSamples :
         (rms_arg # <<>> /\ \A i \in 1..Len(rms_arg) : rms_arg[i] = A)
            => RmsValueIs(rms, Abs(A))

\* C16: a process call on one instance leaves the fields of the other as
\* they were, and what a call does to its own instance and returns is
\* determined by that instance's fields, the clock reading and the frame
\* alone; so each instance behaves as it would when run alone.
C16_InstancesIndependent ==
    /\ [][\A f \in TwoFrames :
            process_other(f) =>
                UNCHANGED <<num_keywords, last_detection_time, keyword_index,
                            threshold, cooldown_period, result, outcome>>]_vars
    /\ [][\A f \in TwoFrames :
            process(f) => UNCHANGED <<other, other_result, other_outcome>>]_vars
    /\ [][other' # other =>
            UNCHANGED <<last_detection_time, keyword_index>>]_vars
    /\ [][\A f \in TwoFrames :
            process(f) =>
                LET r == ProcessOn(Self, clock, f) IN
                  /\ Self' = r.self
                  /\ outcome' = r.outcome
                  /\ r.outcome = "returned" => result' = r.result]_vars

\* Both instances have triggered, at different times and on different slots
C16_Witness ==
    /\ other # <<>>
    /\ Triggered
    /\ other_outcome = "returned" /\ other_result >= 0
    /\ other[1].last_detection_time > last_detection_time
    /\ other[1].keyword_index # keyword_index
    /\ other[1].num_keywords = num_keywords

\* C17: a process call that does not return a slot index leaves
\* last_detection_time and keyword_index as they were, and no process call
\* changes threshold, cooldown_period or num_keywords.
C17_StateChangesOnlyOnTrigger ==
    [][\A f \in Frames :
         process(f) =>
            /\ ~Triggered' => UNCHANGED <<last_detection_time, keyword_index>>
            /\ UNCHANGED <<threshold, cooldown_period, num_keywords>>]_vars

\* C18: a process call with an empty frame returns -1 without raising, in
\* the cooldown or out of it, and leaves last_detection_time (and the next
\* slot) as they were, so it starts no cooldown.
C18_EmptyFrameTolerated ==
    /\ []((outcome # "none" /\ pcm = <<>>)
            => (outcome = "returned" /\ result = -1))
    /\ [][process(<<>>) =>
            UNCHANGED <<last_detection_time, keyword_index, triggers>>]_vars

\* An empty frame processed after a trigger, once its cooldown has elapsed
C18_Witness ==
    /\ pcm = <<>>
    /\ outcome = "returned" /\ result = -1
    /\ triggers >= 1
    /\ current_time - last_detection_time >= cooldown_period

\* C19: whatever the import of pvporcupine and pvporcupine.create do, with
\* or without an access key, create does not raise; it returns the real
\* recognizer only when its creation succeeded, and otherwise an
\* AudioLevelDetector with num_keywords = len(keyword_paths), or 1 when
\* keyword_paths is None or empty.
C19_CreateNeverRaises ==
    [][\A kp \in KeywordPathsArgs, imp \in ImportOutcomes,
          key \in BOOLEAN, real \in BOOLEAN :
         create(kp, imp, key, real) =>
            /\ detKind' \in {"Porcupine", "AudioLevelDetector"}
            /\ detKind' = "Porcupine" => (imp = "ok" /\ real)
            /\ detKind' = "AudioLevelDetector" =>
                  num_keywords' = IF kp.isNone \/ kp.paths = <<>>
                                    THEN 1 ELSE Len(kp.paths)]_vars

\* C20: while every read and write succeeds, nobody else sets the volume
\* and the loudness stays below TARGET_RMS_LOW, the mixer volume never
\* decreases, reaches MAX_VOLUME and stays there; with the loudness staying
\* above TARGET_RMS_HIGH it never increases, reaches MIN_VOLUME and stays.
C20_Converges ==
    /\ [][LoudnessBelow(agc_pcm, TARGET_RMS_LOW)
            => mixer_volume' >= mixer_volume]_vars
    /\ [][LoudnessAbove(agc_pcm, TARGET_RMS_HIGH)
            => mixer_volume' <= mixer_volume]_vars
    /\ (LoudnessBelow(agc_pcm, TARGET_RMS_LOW)
            => <>[](mixer_volume = MAX_VOLUME))
    /\ (LoudnessAbove(agc_pcm, TARGET_RMS_HIGH)
            => <>[](mixer_volume = MIN_VOLUME))

\* The cycle in which a loud signal brings the volume down to MIN_VOLUME
C20_Witness ==
    /\ CycleDone
    /\ LoudnessAbove(agc_pcm, TARGET_RMS_HIGH)
    /\ current_vol = <<MIN_VOLUME + ADJUST_STEP>>
    /\ writes = <<MIN_VOLUME>>
    /\ mixer_volume = MIN_VOLUME

============================================================================
